---- MODULE Spec2Model ----
(***************************************************************************)
(* The configuration resolver (src/src/config.py, class Config) and the    *)
(* lifecycle supervisor (src/src/main.py) of the trading bot.              *)
(*                                                                         *)
(* Python values are tagged records: Str, Bool, IntV, Float, Null, List,    *)
(* Tuple and Dict.  A float is held in thousandths (Float(10) is 0.01).    *)
(* Strings whose characters the code never inspects are TLA+ strings; the  *)
(* two environment values the code converts (x.lower() == 'true' and       *)
(* float(x)) are sequences of characters, so that the conversion is        *)
(* computed.                                                               *)
(***************************************************************************)
EXTENDS Integers, Sequences, FiniteSets, TLC

(***************************************************************************)
(* Bounds of the model.                                                    *)
(***************************************************************************)
\* configuration keys the file and the environment give a value, together, at most
MaxKeys == 1
\* keys one update() call is given at most
MaxUpdateKeys == 2
\* length of the BOT_MAX_POSITION_SIZE text at most
MaxFloatLen == 2

(***************************************************************************)
(* Python values.                                                          *)
(***************************************************************************)
Str(s) == [t |-> "str", s |-> s]
Bool(b) == [t |-> "bool", b |-> b]
IntV(n) == [t |-> "int", n |-> n]
Float(m) == [t |-> "float", m |-> m]
Null == [t |-> "null"]
List(l) == [t |-> "list", l |-> l]
Tuple(l) == [t |-> "tuple", l |-> l]
Dict(d) == [t |-> "dict", d |-> d]
\* an object json cannot serialise (a set, say)
Opaque == [t |-> "object"]

\* bool(v) is False
Falsy(v) ==
    CASE v.t = "str" -> v.s = ""
      [] v.t = "bool" -> ~v.b
      [] v.t = "int" -> v.n = 0
      [] v.t = "float" -> v.m = 0
      [] v.t = "null" -> TRUE
      [] v.t \in {"list", "tuple"} -> Len(v.l) = 0
      [] v.t = "dict" -> DOMAIN v.d = {}
      [] OTHER -> FALSE

Range(f) == {f[i] : i \in DOMAIN f}

(***************************************************************************)
(* Config.DEFAULT_CONFIG, config.py lines 16-78.                           *)
(***************************************************************************)
DEFAULT_CONFIG ==
    [ LOOP_INTERVAL |-> Float(100),
      USE_TESTNET |-> Bool(TRUE),
      DB_PATH |-> Str("data/trading_data.db"),
      LOG_LEVEL |-> Str("INFO"),
      SYMBOL |-> Str("BTCUSDT"),
      API_KEY |-> Str(""),
      API_SECRET |-> Str(""),
      EMAIL_CONFIG |-> Dict([ enabled |-> Bool(FALSE),
                              smtp_server |-> Str("smtp.gmail.com"),
                              smtp_port |-> IntV(587),
                              sender_email |-> Str(""),
                              receiver_email |-> Str(""),
                              password |-> Str("") ]),
      TELEGRAM_CONFIG |-> Dict([ enabled |-> Bool(FALSE),
                                 token |-> Str(""),
                                 chat_id |-> Str("") ]),
      MAX_POSITION_SIZE |-> Float(10),
      MAX_RISK_PER_TRADE |-> Float(20),
      MAX_DAILY_LOSS |-> Float(50),
      MAX_OPEN_ORDERS |-> IntV(10),
      MAX_TRADES_PER_DAY |-> IntV(500),
      STRATEGY |-> Str("market_making"),
      MM_SPREAD |-> Float(2),
      MM_ORDER_SIZE |-> Float(1),
      MM_ORDER_COUNT |-> IntV(3),
      MM_REFRESH_RATE |-> IntV(1),
      ARBITRAGE_SYMBOLS |-> List(<<Str("BTCUSDT"), Str("ETHUSDT"), Str("ETHBTC")>>),
      MIN_PROFIT_THRESHOLD |-> Float(3),
      MOMENTUM_TIMEFRAME |-> Str("1m"),
      LOOKBACK_PERIOD |-> IntV(20),
      RSI_PERIOD |-> IntV(14),
      RSI_OVERBOUGHT |-> IntV(70),
      RSI_OVERSOLD |-> IntV(30),
      EMA_SHORT |-> IntV(9),
      EMA_LONG |-> IntV(21),
      AVAILABLE_PAIRS |-> List(<<Str("BTCUSDT"), Str("ETHUSDT"), Str("BNBUSDT"),
                                 Str("ADAUSDT"), Str("SOLUSDT"), Str("XRPUSDT"),
                                 Str("DOTUSDT"), Str("DOGEUSDT"), Str("AVAXUSDT"),
                                 Str("MATICUSDT")>>),
      AVAILABLE_TIMEFRAMES |-> List(<<Str("1s"), Str("1m"), Str("3m"), Str("5m"),
                                      Str("15m"), Str("30m"), Str("1h"), Str("4h"),
                                      Str("1d")>>) ]

DefaultKeys == DOMAIN DEFAULT_CONFIG

\* a merge that goes into the groups: where both have a dict for the key, the
\* fields of a's that b's omits are kept
MergeDeep(a, b) ==
    [k \in (DOMAIN a) \cup (DOMAIN b) |->
        IF k \notin DOMAIN b THEN a[k]
        ELSE IF k \in DOMAIN a /\ a[k].t = "dict" /\ b[k].t = "dict"
             THEN Dict([f \in (DOMAIN a[k].d) \cup (DOMAIN b[k].d) |->
                          IF f \in DOMAIN b[k].d THEN b[k].d[f] ELSE a[k].d[f]])
             ELSE b[k]]

\* {**a, **b}: every key of a and of b, b's value where both have the key
Merge(a, b) ==
    [k \in (DOMAIN a) \cup (DOMAIN b) |-> IF k \in DOMAIN b THEN b[k] ELSE a[k]]

(***************************************************************************)
(* The converters of env_mapping, config.py lines 152-157.                 *)
(***************************************************************************)
UpperLetters ==
    <<"A", "B", "C", "D", "E", "F", "G", "H", "I", "J", "K", "L", "M",
      "N", "O", "P", "Q", "R", "S", "T", "U", "V", "W", "X", "Y", "Z">>
LowerLetters ==
    <<"a", "b", "c", "d", "e", "f", "g", "h", "i", "j", "k", "l", "m",
      "n", "o", "p", "q", "r", "s", "t", "u", "v", "w", "x", "y", "z">>

LowerChar(c) ==
    IF \E i \in DOMAIN UpperLetters : UpperLetters[i] = c
    THEN LowerLetters[CHOOSE i \in DOMAIN UpperLetters : UpperLetters[i] = c]
    ELSE c

\* x.lower()
Lower(cs) == [i \in DOMAIN cs |-> LowerChar(cs[i])]

\* a toggle that also takes '1' and 'yes' for true
ToBoolLenient(cs) ==
    Bool(Lower(cs) \in {<<"t", "r", "u", "e">>, <<"1">>, <<"y", "e", "s">>})

\* lambda x: x.lower() == 'true'
ToBool(cs) == Bool(Lower(cs) = <<"t", "r", "u", "e">>)

Digits == <<"0", "1", "2", "3", "4", "5", "6", "7", "8", "9">>
IsDigit(c) == \E i \in DOMAIN Digits : Digits[i] = c
DigitVal(c) == (CHOOSE i \in DOMAIN Digits : Digits[i] = c) - 1

RECURSIVE DigitsVal(_)
DigitsVal(ds) ==
    IF Len(ds) = 0 THEN 0
    ELSE 10 * DigitsVal(SubSeq(ds, 1, Len(ds) - 1)) + DigitVal(ds[Len(ds)])

Pow10(n) == CASE n = 0 -> 1 [] n = 1 -> 10 [] n = 2 -> 100 [] OTHER -> 1000

\* float(x) on texts made of digits, '.', '+' and '-' and of letters that start
\* no float literal: an optional sign, then digits with at most one '.', at
\* least one digit; anything else raises ValueError.  The value is in
\* thousandths (three decimals at most are kept).
ParseFloat(cs) ==
    LET signed == Len(cs) > 0 /\ cs[1] \in {"-", "+"}
        body == IF signed THEN SubSeq(cs, 2, Len(cs)) ELSE cs
        dots == {i \in DOMAIN body : body[i] = "."}
        wellFormed ==
            /\ \A i \in DOMAIN body : IsDigit(body[i]) \/ body[i] = "."
            /\ Cardinality(dots) <= 1
            /\ \E i \in DOMAIN body : IsDigit(body[i])
        dot == IF dots = {} THEN Len(body) + 1 ELSE CHOOSE i \in dots : TRUE
        whole == SubSeq(body, 1, dot - 1)
        frac == SubSeq(body, dot + 1, Len(body))
        frac3 == SubSeq(frac, 1, IF Len(frac) < 3 THEN Len(frac) ELSE 3)
        magnitude == 1000 * DigitsVal(whole) + DigitsVal(frac3) * Pow10(3 - Len(frac3))
    IN  IF wellFormed
        THEN [ok |-> TRUE,
              value |-> Float(IF signed /\ cs[1] = "-" THEN 0 - magnitude ELSE magnitude)]
        ELSE [ok |-> FALSE]

(***************************************************************************)
(* The file system the resolver reads and writes.  A path is the sequence  *)
(* of its components; the working directory is the empty path.             *)
(***************************************************************************)
\* the default of --config and of Config(config_path): no directory component
BarePath == <<"config.json">>
\* a path whose parent directory does not exist until it is created
SubPath == <<"conf", "config.json">>
\* a path whose parent directories do not exist, two levels
DeepPath == <<"var", "bot", "config.json">>
\* a path in a directory that exists and cannot be written
ReadOnlyPath == <<"ro", "config.json">>
\* the paths given to Config(config_path)
ConfigPaths == {BarePath, SubPath, DeepPath, ReadOnlyPath}
\* a path that is not the configured one, in the working directory
OtherPath == <<"other.json">>
Paths == ConfigPaths \cup {OtherPath}
\* the path a string names, its components split at '/'
PathOf(s) ==
    CASE s = "config.json" -> BarePath
      [] s = "conf/config.json" -> SubPath
      [] s = "var/bot/config.json" -> DeepPath
      [] s = "ro/config.json" -> ReadOnlyPath
      [] s = "other.json" -> OtherPath
ReadOnlyDirs == {<<"ro">>}

\* os.path.dirname(path)
DirName(path) == SubSeq(path, 1, Len(path) - 1)
\* the directory and every directory above it, the working directory left out
Ancestors(dir) == {SubSeq(dir, 1, n) : n \in 1..Len(dir)}

NoFile == [kind |-> "none"]
\* a file json.load cannot parse
Malformed == [kind |-> "malformed"]
\* a file holding the JSON document doc
JsonFile(doc) == [kind |-> "json", doc |-> doc]

\* json.dump(v): the document written, or a TypeError part of the way through.
\* A tuple is written as an array; an object json does not know raises.
RECURSIVE JsonEncodable(_)
JsonEncodable(v) ==
    CASE v.t \in {"list", "tuple"} -> \A i \in DOMAIN v.l : JsonEncodable(v.l[i])
      [] v.t = "dict" -> \A k \in DOMAIN v.d : JsonEncodable(v.d[k])
      [] v.t = "object" -> FALSE
      [] OTHER -> TRUE

RECURSIVE JsonDoc(_)
JsonDoc(v) ==
    CASE v.t \in {"list", "tuple"} -> List([i \in DOMAIN v.l |-> JsonDoc(v.l[i])])
      [] v.t = "dict" -> Dict([k \in DOMAIN v.d |-> JsonDoc(v.d[k])])
      [] OTHER -> v

\* what open(path, 'w') followed by json.dump(v, file) leaves in the file: the
\* file is truncated on open, so a dump that raises leaves a partial text
JsonDump(v) == IF JsonEncodable(v) THEN JsonFile(JsonDoc(v)) ELSE Malformed

(***************************************************************************)
(* The environment: os.environ restricted to the six mapped variables.     *)
(***************************************************************************)
Unset == [set |-> FALSE]
SetTo(v) == [set |-> TRUE, v |-> v]

\* the variables whose text a converter inspects are sequences of characters
CharVars == {"BOT_USE_TESTNET", "BOT_MAX_POSITION_SIZE"}
EnvVars == {"BINANCE_API_KEY", "BINANCE_API_SECRET", "BOT_USE_TESTNET",
            "BOT_SYMBOL", "BOT_MAX_POSITION_SIZE", "BOT_STRATEGY"}

\* the test `name in os.environ`: the variable is set, be it to ''
EnvIsSet(env, name) == env[name].set

\* os.environ.get(name) is truthy: the variable is set and is not ''
EnvTruthy(env, name) ==
    /\ env[name].set
    /\ IF name \in CharVars THEN env[name].v # <<>> ELSE env[name].v # ""

(***************************************************************************)
(* State.                                                                  *)
(***************************************************************************)
VARIABLES
    environ,    \* os.environ: each mapped variable Unset or SetTo(text)
    config_file,\* the path given to Config(config_path) (main.py: --config)
    files,      \* path -> NoFile, Malformed or JsonFile(doc)
    dirs,       \* the directories that exist
    cfg,        \* the Config object last constructed; see SetAttributes
    last,       \* the last operation: its arguments, what it raised, what it logged
    running,    \* main.py's global flag, line 25
    class_defaults \* the dict the class attribute Config.DEFAULT_CONFIG is bound to

vars == <<environ, config_file, files, dirs, cfg, last, running, class_defaults>>

NoConfig == [live |-> FALSE]

Exists(fs, path) == fs[path].kind # "none"

(***************************************************************************)
(* Config._save_default_config, config.py lines 125-135.                   *)
(***************************************************************************)
\* os.makedirs(dir, exist_ok=True): '' raises FileNotFoundError; a directory
\* that is there is left alone; a missing one is created with its parents,
\* unless the directory it goes into cannot be written
MakeDirs(ds, dir) ==
    LET missing == Ancestors(dir) \ ds
        blocked == \E d \in missing : DirName(d) \in ReadOnlyDirs
    IN  IF Len(dir) = 0 \/ blocked
        THEN [ok |-> FALSE, dirs |-> ds]
        ELSE [ok |-> TRUE, dirs |-> ds \cup missing]

\* open(path, 'w') succeeds: the directory exists and, when the file has to
\* be created, can be written; a file that is there is opened and truncated
\* whatever the mode of its directory
CanOpenForWrite(fs, ds, path) ==
    /\ DirName(path) \in ds \cup {<<>>}
    /\ Exists(fs, path) \/ DirName(path) \notin ReadOnlyDirs

SaveDefaultConfig(fs, ds, path) ==
    LET made == MakeDirs(ds, DirName(path))
    IN  IF made.ok /\ CanOpenForWrite(fs, made.dirs, path)
        THEN [files |-> [fs EXCEPT ![path] = JsonDump(Dict(class_defaults))],
              dirs |-> made.dirs,
              log |-> {"default_file_created"}]
        ELSE [files |-> fs, dirs |-> made.dirs,
              log |-> {"default_file_error"}]

(***************************************************************************)
(* Config._load_config, config.py lines 103-123.  Besides the items of     *)
(* config_data the result tells which dict config_data is (is_class_dict:  *)
(* the one DEFAULT_CONFIG is bound to, so that an item assigned on one is  *)
(* assigned on the other) and which of its values are the very objects the *)
(* class attribute holds (shared): a copy and a ** merge are shallow.      *)
(***************************************************************************)
\* a value that can be changed in place
Mutable(v) == v.t \in {"list", "dict", "object"}

\* config_data bound to the dict of the class attribute itself
DictAlias(d) ==
    [items |-> d, is_class_dict |-> TRUE, shared |-> {k \in DOMAIN d : Mutable(d[k])}]

\* d.copy(): a new dict with the items of d; the values are not copied
DictCopy(d) ==
    [items |-> d, is_class_dict |-> FALSE, shared |-> {k \in DOMAIN d : Mutable(d[k])}]

LoadConfig(fs, ds, path) ==
    IF Exists(fs, path)
    THEN IF fs[path].kind = "json" /\ fs[path].doc.t = "dict"
         THEN \* json.load gave a mapping: {**DEFAULT_CONFIG, **user_config}, a
              \* new dict; a default value the file does not replace is shared
              [config_data |-> Merge(class_defaults, fs[path].doc.d),
               is_class_dict |-> FALSE,
               shared |-> {k \in DOMAIN class_defaults \ DOMAIN fs[path].doc.d :
                             Mutable(class_defaults[k])},
               files |-> fs, dirs |-> ds, log |-> {"loaded"}]
         ELSE \* json.load raised, or ** raised TypeError on a non-mapping:
              \* except Exception logs the error and takes a copy of the defaults
              LET copied == DictCopy(class_defaults)
              IN  [config_data |-> copied.items,
                   is_class_dict |-> copied.is_class_dict,
                   shared |-> copied.shared,
                   files |-> fs, dirs |-> ds, log |-> {"load_error"}]
    ELSE LET copied == DictCopy(class_defaults)
             saved == SaveDefaultConfig(fs, ds, path)
         IN  [config_data |-> copied.items,
              is_class_dict |-> copied.is_class_dict,
              shared |-> copied.shared,
              files |-> saved.files, dirs |-> saved.dirs,
              log |-> {"not_found"} \cup saved.log]

(***************************************************************************)
(* Config._load_env_variables, config.py lines 137-162.                    *)
(***************************************************************************)
\* one entry of the loop over env_mapping: the converted value, or ValueError
Converted(name, text) ==
    CASE name = "BOT_USE_TESTNET" -> [ok |-> TRUE, value |-> ToBool(text)]
      [] name = "BOT_MAX_POSITION_SIZE" -> ParseFloat(text)
      [] OTHER -> [ok |-> TRUE, value |-> Str(text)]

\* env_mapping, in the order of the dict literal
EnvMapping ==
    << [env |-> "BOT_USE_TESTNET", key |-> "USE_TESTNET"],
       [env |-> "BOT_SYMBOL", key |-> "SYMBOL"],
       [env |-> "BOT_MAX_POSITION_SIZE", key |-> "MAX_POSITION_SIZE"],
       [env |-> "BOT_STRATEGY", key |-> "STRATEGY"] >>

\* the target key of a mapped variable
TargetKey(name) ==
    CASE name = "BINANCE_API_KEY" -> "API_KEY"
      [] name = "BINANCE_API_SECRET" -> "API_SECRET"
      [] OTHER -> EnvMapping[CHOOSE i \in DOMAIN EnvMapping : EnvMapping[i].env = name].key

\* lines 143-149: the two API keys, taken as they are
LoadApiKeys(cd, env) ==
    LET withKey == IF EnvTruthy(env, "BINANCE_API_KEY")
                   THEN [cd EXCEPT !["API_KEY"] = Str(env["BINANCE_API_KEY"].v)]
                   ELSE cd
    IN  IF EnvTruthy(env, "BINANCE_API_SECRET")
        THEN [withKey EXCEPT !["API_SECRET"] = Str(env["BINANCE_API_SECRET"].v)]
        ELSE withKey

\* the loop with a guarded conversion: a text the converter refuses is passed
\* over and the key keeps the value it has
RECURSIVE LoadMappedLenient(_, _, _)
LoadMappedLenient(cd, env, i) ==
    IF i > Len(EnvMapping)
    THEN [raised |-> "none", config_data |-> cd]
    ELSE IF EnvTruthy(env, EnvMapping[i].env)
         THEN LET conv == Converted(EnvMapping[i].env, env[EnvMapping[i].env].v)
              IN  IF conv.ok
                  THEN LoadMappedLenient([cd EXCEPT ![EnvMapping[i].key] = conv.value],
                                         env, i + 1)
                  ELSE LoadMappedLenient(cd, env, i + 1)
         ELSE LoadMappedLenient(cd, env, i + 1)

\* the loop giving way to the file: a key is taken from the environment only
\* while it still has its default value
RECURSIVE LoadMappedFileFirst(_, _, _)
LoadMappedFileFirst(cd, env, i) ==
    IF i > Len(EnvMapping)
    THEN [raised |-> "none", config_data |-> cd]
    ELSE IF /\ EnvTruthy(env, EnvMapping[i].env)
            /\ cd[EnvMapping[i].key] = DEFAULT_CONFIG[EnvMapping[i].key]
         THEN LET conv == Converted(EnvMapping[i].env, env[EnvMapping[i].env].v)
              IN  IF conv.ok
                  THEN LoadMappedFileFirst([cd EXCEPT ![EnvMapping[i].key] = conv.value],
                                           env, i + 1)
                  ELSE [raised |-> "ValueError", config_data |-> cd]
         ELSE LoadMappedFileFirst(cd, env, i + 1)

\* lines 159-162: the loop over env_mapping from entry i on; a converter that
\* raises ends it
RECURSIVE LoadMapped(_, _, _)
LoadMapped(cd, env, i) ==
    IF i > Len(EnvMapping)
    THEN [raised |-> "none", config_data |-> cd]
    ELSE IF EnvTruthy(env, EnvMapping[i].env)
         THEN LET conv == Converted(EnvMapping[i].env, env[EnvMapping[i].env].v)
              IN  IF conv.ok
                  THEN LoadMapped([cd EXCEPT ![EnvMapping[i].key] = conv.value], env, i + 1)
                  ELSE [raised |-> "ValueError", config_data |-> cd]
         ELSE LoadMapped(cd, env, i + 1)

LoadEnvVariables(cd, env) == LoadMapped(LoadApiKeys(cd, env), env, 1)

(***************************************************************************)
(* Config._validate_config, config.py lines 164-181.                       *)
(***************************************************************************)
\* v in container: membership, or TypeError when the container is not
\* iterable.  (A str container, a substring test, is outside the inputs here.)
Contains(container, v) ==
    CASE container.t \in {"list", "tuple"} ->
             [ok |-> TRUE, in |-> \E i \in DOMAIN container.l : container.l[i] = v]
      [] container.t = "dict" ->
             IF v.t \in {"list", "dict"}
             THEN [ok |-> FALSE]
             ELSE [ok |-> TRUE, in |-> v.t = "str" /\ v.s \in DOMAIN container.d]
      [] container.t \in {"null", "bool", "int", "float", "object"} -> [ok |-> FALSE]

\* ', '.join(container) raises no TypeError: every item is a str
Joinable(container) ==
    CASE container.t \in {"list", "tuple"} ->
             \A i \in DOMAIN container.l : container.l[i].t = "str"
      [] container.t = "dict" -> TRUE
      [] OTHER -> FALSE

valid_strategies == <<Str("market_making"), Str("arbitrage"), Str("momentum")>>

ValidateConfig(cd) ==
    LET keys == IF Falsy(cd["API_KEY"]) \/ Falsy(cd["API_SECRET"])
                THEN {"warn_api_keys"} ELSE {}
        member == Contains(cd["AVAILABLE_PAIRS"], cd["SYMBOL"])
        strategy == IF cd["STRATEGY"] \notin Range(valid_strategies)
                    THEN {"warn_strategy"} ELSE {}
    IN  IF ~member.ok
        THEN [raised |-> "TypeError", log |-> keys]
        ELSE IF member.in
             THEN [raised |-> "none", log |-> keys \cup strategy]
             ELSE IF Joinable(cd["AVAILABLE_PAIRS"])
                  THEN [raised |-> "none", log |-> keys \cup {"warn_symbol"} \cup strategy]
                  ELSE [raised |-> "TypeError", log |-> keys]

(***************************************************************************)
(* Config.__init__, config.py lines 80-101.                                *)
(*                                                                         *)
(* The object is its instance attributes.  __init__ binds logger (86),     *)
(* config_path (87) and config_data (88, 113-123), and then lines 100-101  *)
(* set every key of config_data as one more attribute of the same object:  *)
(* a key named config_path or config_data rebinds that attribute, and a    *)
(* key named logger, save, update or DEFAULT_CONFIG is found on the        *)
(* instance before the logger, the method or the class attribute of that   *)
(* name.  The fields of the record:                                        *)
(*   config_path    the path self.config_path names                        *)
(*   config_data    the items of the dict self.config_data is bound to     *)
(*   is_class_dict  that dict is the one DEFAULT_CONFIG is bound to        *)
(*   attrs          the attributes set from the keys of no such name       *)
(*   shadowed       the values set under logger, save, update and          *)
(*                  DEFAULT_CONFIG                                         *)
(*   shared         the keys whose attribute is the very object the class  *)
(*                  attribute holds                                        *)
(* Keys named after the private methods (_load_config and the like) are    *)
(* plain attributes: nothing calls those methods after __init__.           *)
(***************************************************************************)
\* the names the methods look up on self after __init__
ObjectNames == {"config_path", "config_data", "logger", "save", "update", "DEFAULT_CONFIG"}
ShadowNames == {"logger", "save", "update", "DEFAULT_CONFIG"}

\* the keys _load_env_variables assigns on config_data
OverriddenKeys(e) == {TargetKey(n) : n \in {x \in EnvVars : EnvTruthy(e, x)}}

\* lines 86-88 and 100-101: the attributes of the object once the loop
\* for key, value in self.config_data.items(): setattr(self, key, value)
\* is over.  (The value of config_path is a str and that of config_data a
\* dict in every input of the model.)
SetAttributes(path, cd, is_class_dict, shared) ==
    [live |-> TRUE,
     config_path |-> IF "config_path" \in DOMAIN cd
                     THEN PathOf(cd["config_path"].s) ELSE path,
     config_data |-> IF "config_data" \in DOMAIN cd THEN cd["config_data"].d ELSE cd,
     is_class_dict |-> is_class_dict /\ "config_data" \notin DOMAIN cd,
     attrs |-> [k \in DOMAIN cd \ ObjectNames |-> cd[k]],
     shadowed |-> [k \in DOMAIN cd \cap ShadowNames |-> cd[k]],
     shared |-> shared \ ObjectNames]

\* the dict DEFAULT_CONFIG is bound to, after items were assigned on a
\* config_data that now holds `items` (lines 144, 148, 161, 209)
ClassDefaultsAfter(is_class_dict, items) ==
    IF is_class_dict THEN items ELSE class_defaults

\* the constructor with a default-file writer that lets its error out instead
\* of catching it
ConstructFatalOnWriteError(fs, ds, path, env) ==
    LET loaded == LoadConfig(fs, ds, path)
        fromEnv == LoadEnvVariables(loaded.config_data, env)
        checked == ValidateConfig(fromEnv.config_data)
        raised == CASE "default_file_error" \in loaded.log -> "OSError"
                    [] fromEnv.raised # "none" -> fromEnv.raised
                    [] OTHER -> checked.raised
    IN  [raised |-> raised,
         files |-> loaded.files,
         dirs |-> loaded.dirs,
         log |-> loaded.log,
         defaults |-> ClassDefaultsAfter(loaded.is_class_dict, fromEnv.config_data),
         object |-> SetAttributes(path, fromEnv.config_data, loaded.is_class_dict,
                                  loaded.shared \ OverriddenKeys(env))]

\* lines 91-101: _load_config, _load_env_variables, _validate_config, then
\* the setattr loop; the first exception ends the constructor
Construct(fs, ds, path, env) ==
    LET loaded == LoadConfig(fs, ds, path)
        fromEnv == LoadEnvVariables(loaded.config_data, env)
        checked == ValidateConfig(fromEnv.config_data)
        raised == IF fromEnv.raised # "none" THEN fromEnv.raised ELSE checked.raised
    IN  [raised |-> raised,
         files |-> loaded.files,
         dirs |-> loaded.dirs,
         log |-> loaded.log \cup (IF fromEnv.raised # "none" THEN {} ELSE checked.log),
         defaults |-> ClassDefaultsAfter(loaded.is_class_dict, fromEnv.config_data),
         object |-> SetAttributes(path, fromEnv.config_data, loaded.is_class_dict,
                                  loaded.shared \ OverriddenKeys(env))]

(***************************************************************************)
(* Config.save, config.py lines 183-198.                                   *)
(***************************************************************************)
\* self.DEFAULT_CONFIG: the instance attribute when the file had a key of
\* that name (a dict in every input of the model), else the class attribute
SeenDefaults(obj) ==
    IF "DEFAULT_CONFIG" \in DOMAIN obj.shadowed
    THEN obj.shadowed["DEFAULT_CONFIG"].d
    ELSE class_defaults

\* self.logger is no logger: self.logger.info, .warning and .error raise
\* AttributeError
LoggerBroken(obj) == "logger" \in DOMAIN obj.shadowed

\* the comprehension testing the attribute's value instead of its presence
ConfigToSaveTruthy(obj) ==
    [k \in {x \in DOMAIN SeenDefaults(obj) \cap DOMAIN obj.attrs : ~Falsy(obj.attrs[x])} |->
        obj.attrs[k]]

\* {key: getattr(self, key) for key in self.DEFAULT_CONFIG.keys() if hasattr(self, key)}
ConfigToSave(obj) ==
    [k \in DOMAIN SeenDefaults(obj) \cap DOMAIN obj.attrs |-> obj.attrs[k]]

\* the body of save(): the file system, the log, what is raised, and whether
\* line 193 opened self.config_path for writing.  Every
\* exception of the try block is caught (197), and the handler logs it: with
\* no logger the call of line 196, or that of line 198, raises AttributeError
\* after the file was opened and written, or could not be
SaveConfig(fs, ds, obj) ==
    LET opened == CanOpenForWrite(fs, ds, obj.config_path)
        written == JsonDump(Dict(ConfigToSave(obj)))
        after == IF opened THEN [fs EXCEPT ![obj.config_path] = written] ELSE fs
    IN  IF LoggerBroken(obj)
        THEN [files |-> after, log |-> {}, raised |-> "AttributeError", opened |-> opened]
        ELSE [files |-> after,
              log |-> IF opened /\ written.kind = "json" THEN {"saved"} ELSE {"save_error"},
              raised |-> "none", opened |-> opened]

\* self.save(): TypeError when the attribute save is no method
CallSave(fs, ds, obj) ==
    IF "save" \in DOMAIN obj.shadowed
    THEN [files |-> fs, log |-> {}, raised |-> "TypeError", opened |-> FALSE]
    ELSE SaveConfig(fs, ds, obj)

(***************************************************************************)
(* Config.update, config.py lines 200-215.  new_config is a mapping and    *)
(* order the sequence of its keys as new_config.items() gives them.        *)
(***************************************************************************)
\* the keys of new_config that are no key of self.DEFAULT_CONFIG
UnknownKeys(obj, new_config) == DOMAIN new_config \ DOMAIN SeenDefaults(obj)

\* the keys the loop gets through: all of them, or, when the warning of line
\* 211 cannot be logged, those before the first unknown key
Reached(obj, new_config, order) ==
    LET stops == {i \in DOMAIN order : order[i] \in UnknownKeys(obj, new_config)}
    IN  IF LoggerBroken(obj) /\ stops # {}
        THEN {order[i] : i \in 1..((CHOOSE i \in stops : \A j \in stops : i <= j) - 1)}
        ELSE Range(order)

\* lines 206-211: the loop over new_config.items(); a key of
\* self.DEFAULT_CONFIG is set as an attribute and as an item of config_data
Updated(obj, new_config, order) ==
    LET accepted == Reached(obj, new_config, order) \ UnknownKeys(obj, new_config)
    IN  [obj EXCEPT
           !.attrs = Merge(obj.attrs, [k \in accepted |-> new_config[k]]),
           !.config_data = Merge(obj.config_data, [k \in accepted |-> new_config[k]]),
           !.shared = obj.shared \ accepted]

\* config.update(new_config) as a whole: TypeError when the attribute update
\* is no method; AttributeError out of the loop when a warning cannot be
\* logged; else the loop, self.save() (214) and the last log line (215)
UpdateConfig(fs, ds, obj, new_config, order) ==
    IF "update" \in DOMAIN obj.shadowed
    THEN [object |-> obj, files |-> fs, log |-> {}, raised |-> "TypeError",
          opened |-> FALSE]
    ELSE LET after == Updated(obj, new_config, order)
             unknown == UnknownKeys(obj, new_config)
             saved == CallSave(fs, ds, after)
         IN  IF LoggerBroken(obj) /\ unknown # {}
             THEN [object |-> after, files |-> fs, log |-> {},
                   raised |-> "AttributeError", opened |-> FALSE]
             ELSE [object |-> after, files |-> saved.files,
                   log |-> saved.log \cup
                           (IF unknown # {} THEN {"warn_unknown_key"} ELSE {}),
                   raised |-> saved.raised, opened |-> saved.opened]

(***************************************************************************)
(* main.py.  The collaborator classes (BinanceClient, DatabaseManager,     *)
(* AlertSystem, RiskManager, OrderManager, PerformanceTracker and the      *)
(* strategies) are imported from modules that are not in the repository:   *)
(* each constructor and call either returns or raises.                     *)
(***************************************************************************)
\* initialize_components, lines 44-92: the collaborators in the order they are
\* built; "handshake" is binance_client.get_account_info(), lines 57-58
ConstructionSteps ==
    <<"binance_client", "handshake", "db_manager", "alert_system",
      "risk_manager", "order_manager", "performance_tracker">>

\* the chain ending in a default strategy instead of the raise of line 122
StrategyClassWithDefault(strategy) ==
    CASE strategy = Str("arbitrage") -> "ArbitrageStrategy"
      [] strategy = Str("momentum") -> "MomentumStrategy"
      [] OTHER -> "MarketMakingStrategy"

\* lines 95-122: the class the if/elif chain picks for config.STRATEGY
StrategyClass(strategy) ==
    CASE strategy = Str("market_making") -> "MarketMakingStrategy"
      [] strategy = Str("arbitrage") -> "ArbitrageStrategy"
      [] strategy = Str("momentum") -> "MomentumStrategy"
      [] OTHER -> "none"

\* where a collaborator raises: at one construction step, in the strategy's
\* constructor, or nowhere
FailurePoints == Range(ConstructionSteps) \cup {"strategy", "nowhere"}

\* the steps with each one guarded on its own: the one that raises is skipped
\* and the ones after it still run
StepsBeforeSkipping(steps, failAt) ==
    SelectSeq(steps, LAMBDA step : step # failAt)

\* the steps before the one that raises (all of them when none does)
RECURSIVE StepsBefore(_, _)
StepsBefore(steps, failAt) ==
    IF Len(steps) = 0 \/ steps[1] = failAt THEN <<>>
    ELSE <<steps[1]>> \o StepsBefore(SubSeq(steps, 2, Len(steps)), failAt)

\* initialize_components(config, logger), lines 44-132, with the collaborator
\* failing at failAt: what it raised, the steps that completed in order, the
\* arguments the client was built with, the strategy class instantiated
InitializeComponents(obj, failAt) ==
    LET done == StepsBefore(ConstructionSteps, failAt)
        reachedStrategy == Len(done) = Len(ConstructionSteps)
        class == StrategyClass(obj.attrs["STRATEGY"])
    IN  [raised |-> CASE ~reachedStrategy -> "CollaboratorError"
                      [] reachedStrategy /\ class = "none" -> "ValueError"
                      [] reachedStrategy /\ class # "none" /\ failAt = "strategy" ->
                             "CollaboratorError"
                      [] OTHER -> "none",
         completed |-> done,
         testnet |-> obj.attrs["USE_TESTNET"],
         strategy |-> IF reachedStrategy /\ class # "none" /\ failAt # "strategy"
                      THEN class ELSE "none",
         \* no except or finally in the function: nothing built is closed
         closed |-> {},
         \* and no call of alert_system.send_alert: nothing is reported
         alerts |-> <<>>]

\* the names main() binds, which makes each of them a local of main():
\* args (141), log_level (144), logger (145), config (149), components (157),
\* market_data (170), signals (173), signal (the for target, 177), e (189)
MainLocals ==
    {"args", "log_level", "logger", "config", "components", "market_data",
     "signals", "signal", "e"}

\* main(), lines 134-198.  Line 137 reads the name signal to call
\* signal.signal(...).  The name is a local of main() (the for loop at line 177
\* binds it) and nothing has bound it yet, so the read raises
\* UnboundLocalError before any statement of main() has had an effect: no
\* handler is installed, no argument parsed, no configuration resolved, no
\* collaborator built, the loop not entered, the finally block (inside the try
\* at line 167) not run.  The exception leaves main() and the interpreter
\* exits with status 1.
MainRun(args) ==
    IF "signal" \in MainLocals
    THEN [state |-> "exited", raised |-> "UnboundLocalError", exit_code |-> 1,
          handlers_installed |-> FALSE, config_resolved |-> FALSE,
          constructed |-> <<>>, entered_loop |-> FALSE, calls |-> <<>>]
    ELSE [state |-> "past_line_138", raised |-> "none", exit_code |-> 0,
          handlers_installed |-> TRUE, config_resolved |-> FALSE,
          constructed |-> <<>>, entered_loop |-> FALSE, calls |-> <<>>]

(***************************************************************************)
(* Inputs.                                                                 *)
(***************************************************************************)
\* what a configuration file gives a key.  EXTRA_KEY is no default key, and
\* neither are the six names of ObjectNames.
FileKeys ==
    {"SYMBOL", "STRATEGY", "USE_TESTNET", "MAX_POSITION_SIZE", "API_KEY",
     "API_SECRET", "AVAILABLE_PAIRS", "EMAIL_CONFIG", "EXTRA_KEY"}
    \cup ObjectNames

FileValues(k) ==
    CASE k = "SYMBOL" -> {Str("ETHUSDT"), Str("NOPEUSDT")}
      [] k = "STRATEGY" -> {Str("arbitrage"), Str("scalping")}
      [] k = "USE_TESTNET" -> {Bool(FALSE), Bool(TRUE)}
      [] k = "MAX_POSITION_SIZE" -> {Float(50)}
      [] k = "API_KEY" -> {Str("file-key")}
      [] k = "API_SECRET" -> {Str("file-secret")}
      [] k = "AVAILABLE_PAIRS" -> {Null, List(<<Str("ETHUSDT")>>), List(<<IntV(1)>>)}
      [] k = "EMAIL_CONFIG" -> {Dict([enabled |-> Bool(TRUE)])}
      [] k = "EXTRA_KEY" -> {IntV(1)}
      [] k = "config_path" -> {Str("other.json")}
      [] k = "config_data" -> {Dict([x |-> IntV(1)])}
      [] k = "DEFAULT_CONFIG" -> {Dict(<<>>)}
      [] k \in {"logger", "save", "update"} -> {IntV(1)}

\* the JSON objects a file holds: no key, or one key
FileObjects ==
    {Dict(<<>>)} \cup
    UNION {{Dict([x \in {k} |-> v]) : v \in FileValues(k)} : k \in FileKeys}

\* a file: unparsable, a JSON document that is no object, or an object
FileContents ==
    {Malformed, JsonFile(List(<<IntV(1), IntV(2)>>)), JsonFile(Null)}
    \cup {JsonFile(o) : o \in FileObjects}

ApiKeyTexts == {"", "env-key"}
ApiSecretTexts == {"", "env-secret"}
SymbolTexts == {"", "BTCUSDT", "SOLUSDT", "NOPEUSDT"}
StrategyTexts == {"", "momentum", "scalping"}
TestnetTexts ==
    {<<>>, <<"t", "r", "u", "e">>, <<"T", "R", "U", "E">>, <<"T", "r", "u", "e">>,
     <<"f", "a", "l", "s", "e">>, <<"1">>, <<"y", "e", "s">>}
FloatAlphabet == {"5", ".", "-", "a"}
FloatTexts == UNION {[1..n -> FloatAlphabet] : n \in 0..MaxFloatLen}

Optional(texts) == {Unset} \cup {SetTo(x) : x \in texts}

\* the environments: at most one mapped variable is set, or both API keys are
Environments ==
    {e \in [BINANCE_API_KEY : Optional(ApiKeyTexts),
            BINANCE_API_SECRET : Optional(ApiSecretTexts),
            BOT_USE_TESTNET : Optional(TestnetTexts),
            BOT_SYMBOL : Optional(SymbolTexts),
            BOT_MAX_POSITION_SIZE : Optional(FloatTexts),
            BOT_STRATEGY : Optional(StrategyTexts)] :
        LET given == {n \in EnvVars : e[n].set}
        IN  \/ Cardinality(given) <= 1
            \/ given = {"BINANCE_API_KEY", "BINANCE_API_SECRET"}}

\* what update() is given for a key.  UNKNOWN_KEY is no default key; the value
\* given for LOG_LEVEL is one json.dump cannot write.
UpdateKeys == {"SYMBOL", "LOG_LEVEL", "UNKNOWN_KEY"}

UpdateValues(k) ==
    CASE k = "SYMBOL" -> {Str("XRPUSDT")}
      [] k = "LOG_LEVEL" -> {Opaque}
      [] k = "UNKNOWN_KEY" -> {IntV(7)}

AllUpdateValues == UNION {UpdateValues(k) : k \in UpdateKeys}

UpdateArguments ==
    UNION {{d \in [ks -> AllUpdateValues] : \A k \in ks : d[k] \in UpdateValues(k)} :
           ks \in {x \in SUBSET UpdateKeys : Cardinality(x) <= MaxUpdateKeys}}

\* the orders in which new_config.items() can give the keys of new_config
Orders(new_config) ==
    {o \in [1..Cardinality(DOMAIN new_config) -> DOMAIN new_config] :
        Range(o) = DOMAIN new_config}

(***************************************************************************)
(* The initial state: one path is the configured one; it holds a file or   *)
(* not; its directory exists when it holds a file; no Config object yet.   *)
(* The file and the environment together give at most MaxKeys keys a       *)
(* value (the same key in both counts once), or the two API keys; a file   *)
(* with a key of ObjectNames comes with no variable set.                   *)
(***************************************************************************)
\* the keys a file gives
KeysOfFile(content) ==
    IF content.kind = "json" /\ content.doc.t = "dict" THEN DOMAIN content.doc.d ELSE {}

\* where a file is at the start: anywhere when there is none, at the bare path,
\* or an empty object in the directory that cannot be written
InitialFiles ==
    {[path |-> p, content |-> NoFile] : p \in ConfigPaths}
    \cup {[path |-> BarePath, content |-> c] : c \in FileContents}
    \cup {[path |-> ReadOnlyPath, content |-> JsonFile(Dict(<<>>))]}

Init ==
    /\ environ \in Environments
    /\ \E f \in InitialFiles :
          /\ LET given == {TargetKey(n) : n \in {x \in EnvVars : environ[x].set}}
                          \cup KeysOfFile(f.content)
             IN  /\ Cardinality(given) <= MaxKeys \/ given = {"API_KEY", "API_SECRET"}
                 /\ KeysOfFile(f.content) \cap ObjectNames # {} =>
                        \A n \in EnvVars : ~environ[n].set
          /\ config_file = f.path
          /\ files = [p \in Paths |-> IF p = f.path THEN f.content ELSE NoFile]
          /\ dirs = ReadOnlyDirs \cup
                    (IF f.content = NoFile THEN {} ELSE Ancestors(DirName(f.path)))
    /\ cfg = NoConfig
    /\ last = [op |-> "none"]
    /\ running = TRUE
    /\ class_defaults = DEFAULT_CONFIG

(***************************************************************************)
(* Operations.                                                             *)
(***************************************************************************)
\* config = Config(config_path)
NewConfig ==
    LET built == Construct(files, dirs, config_file, environ)
    IN  /\ files' = built.files
        /\ dirs' = built.dirs
        /\ cfg' = IF built.raised = "none" THEN built.object ELSE cfg
        /\ last' = [op |-> "Config", raised |-> built.raised, log |-> built.log,
                    file_before |-> files[config_file]]
        /\ class_defaults' = built.defaults
        /\ UNCHANGED <<environ, config_file, running>>

\* config.update(new_config), new_config.items() giving the keys in `order`
Update(new_config, order) ==
    /\ cfg.live
    /\ LET done == UpdateConfig(files, dirs, cfg, new_config, order)
       IN  /\ cfg' = done.object
           /\ files' = done.files
           /\ last' = [op |-> "update", new_config |-> new_config,
                       raised |-> done.raised, log |-> done.log,
                       opened |-> done.opened]
           /\ class_defaults' =
                  ClassDefaultsAfter(cfg.is_class_dict, done.object.config_data)
    /\ UNCHANGED <<environ, config_file, dirs, running>>

\* config.save()
Save ==
    /\ cfg.live
    /\ LET saved == CallSave(files, dirs, cfg)
       IN  /\ files' = saved.files
           /\ last' = [op |-> "save", raised |-> saved.raised, log |-> saved.log,
                       opened |-> saved.opened,
                       file_before |-> files[cfg.config_path],
                       \* the object is as Config() returned it just before
                       fresh |-> last.op = "Config" /\ last.raised = "none"]
    /\ UNCHANGED <<environ, config_file, dirs, cfg, running, class_defaults>>

\* initialize_components(config, logger)
Initialize(failAt) ==
    /\ cfg.live
    /\ last' = [op |-> "initialize_components", failAt |-> failAt,
                result |-> InitializeComponents(cfg, failAt)]
    /\ UNCHANGED <<environ, config_file, files, dirs, cfg, running, class_defaults>>

\* signal_handler(sig, frame), lines 27-31
SignalHandler ==
    /\ running' = FALSE
    /\ last' = [op |-> "signal_handler"]
    /\ UNCHANGED <<environ, config_file, files, dirs, cfg, class_defaults>>

\* python main.py --config <config_file>
Main ==
    /\ last' = [op |-> "main", result |-> MainRun([config |-> config_file])]
    /\ UNCHANGED <<environ, config_file, files, dirs, cfg, running, class_defaults>>

(***************************************************************************)
(* Two programs use these operations.  Spec is class Config in the hands   *)
(* of a caller: objects are constructed, updated and saved in any order.   *)
(* MainSpec is main.py: it constructs a Config and the collaborators and   *)
(* handles signals; it calls neither update() nor save() (main.py has no   *)
(* such call).                                                             *)
(***************************************************************************)
Next ==
    \/ NewConfig
    \/ \E new_config \in UpdateArguments :
          \E order \in Orders(new_config) : Update(new_config, order)
    \/ Save

Spec == Init /\ [][Next]_vars

MainNext ==
    \/ NewConfig
    \/ \E failAt \in FailurePoints : Initialize(failAt)
    \/ SignalHandler
    \/ Main

MainSpec == Init /\ [][MainNext]_vars

(***************************************************************************)
(* Properties of the configuration resolver.                               *)
(***************************************************************************)
\* a key the file read by the last Config() gave a value
FileGave(k) ==
    /\ last.file_before.kind = "json"
    /\ last.file_before.doc.t = "dict"
    /\ k \in DOMAIN last.file_before.doc.d

\* the value a key has below the environment: the file's, else the default
FileOrDefault(k) ==
    IF FileGave(k) THEN last.file_before.doc.d[k] ELSE DEFAULT_CONFIG[k]

\* the last operation was Config() and it returned an object
Resolved == last.op = "Config" /\ last.raised = "none"

\* config_data is the mapping the resolution built: the file read had no key
\* config_data, whose value lines 100-101 would bind self.config_data to
MappingKept == ~FileGave("config_data")

C2_MalformedIsFatal ==
    (last.op = "Config" /\ last.file_before = Malformed) => last.raised # "none"

\* C3: a resolution that found no file at the configured path, in a place
\* that can be written, leaves the serialized defaults at that path; with no
\* environment variable set it succeeds and the object holds the defaults.
C3_DefaultsWritten ==
    (/\ last.op = "Config"
     /\ last.file_before = NoFile
     /\ DirName(config_file) \notin ReadOnlyDirs) =>
        /\ files[config_file] = JsonFile(Dict(DEFAULT_CONFIG))
        /\ (\A n \in EnvVars : ~environ[n].set) =>
              /\ last.raised = "none"
              /\ cfg.config_data = DEFAULT_CONFIG


\* C11: update() takes exactly the default keys: each key of new_config
\* that is a default key has the new value afterwards, in config_data and as
\* an attribute; a key that is no default key is logged and is neither added
\* nor given a value; a call with no default key changes nothing of the
\* object; and the call returns after its save, written or not, and raises
\* nothing.
C11_UpdateAcceptsDefaultKeys ==
    [][last'.op = "update" =>
          LET nc == last'.new_config
              known == DOMAIN nc \cap DefaultKeys
              unknown == DOMAIN nc \ DefaultKeys
          IN  /\ \A k \in known :
                    cfg'.config_data[k] = nc[k] /\ cfg'.attrs[k] = nc[k]
              /\ \A k \in unknown :
                    /\ (k \in DOMAIN cfg'.config_data) = (k \in DOMAIN cfg.config_data)
                    /\ (k \in DOMAIN cfg'.attrs) = (k \in DOMAIN cfg.attrs)
              /\ known = {} => cfg' = cfg
              /\ (unknown # {}) = ("warn_unknown_key" \in last'.log)
              /\ last'.log \cap {"saved", "save_error"} # {}
              /\ last'.raised = "none"
      ]_vars

\* C12: validation never makes a resolution fail: a Config() whose
\* BOT_MAX_POSITION_SIZE, if given, is a number returns an object, whatever
\* the file and the environment give SYMBOL, STRATEGY, AVAILABLE_PAIRS and
\* the API keys.
C12_ValidationAdvisory ==
    (/\ last.op = "Config"
     /\ EnvTruthy(environ, "BOT_MAX_POSITION_SIZE") =>
           ParseFloat(environ["BOT_MAX_POSITION_SIZE"].v).ok) =>
        last.raised = "none"

\* the file the last Config() read holds exactly the default keys, as every
\* file the resolver has written does
ReadFullFile ==
    /\ last.file_before.kind = "json"
    /\ last.file_before.doc.t = "dict"
    /\ DOMAIN last.file_before.doc.d = DefaultKeys

\* C13 as stated: a save() right after a resolution from a file that holds
\* the default keys leaves the file as it was read, whatever the environment.
C13_RoundTrip ==
    [][(Resolved /\ ReadFullFile /\ last'.op = "save") =>
           files'[config_file] = last.file_before]_vars

\* C13 amended: a save() right after a resolution from a file that holds
\* exactly the default keys leaves the file as it was read, provided every
\* mapped environment variable that is not empty converts to the value the
\* file has for its key.
C13_RoundTripWithoutOverrides ==
    [][(/\ Resolved
        /\ ReadFullFile
        /\ \A n \in EnvVars :
              EnvTruthy(environ, n) =>
                 Converted(n, environ[n].v).value = last.file_before.doc.d[TargetKey(n)]
        /\ last'.op = "save") =>
           files'[config_file] = last.file_before]_vars

\* C13 happens: save() right after a resolution wrote the file and the file
\* is as it was before, with exactly the default keys, a SYMBOL that is not
\* the default's, and the values the object holds
C13_Witness ==
    /\ last.op = "save"
    /\ last.fresh
    /\ "saved" \in last.log
    /\ files[config_file] = last.file_before
    /\ files[config_file].kind = "json"
    /\ DOMAIN files[config_file].doc.d = DefaultKeys
    /\ files[config_file].doc.d = cfg.config_data
    /\ cfg.config_data["SYMBOL"] # DEFAULT_CONFIG["SYMBOL"]

(***************************************************************************)
(* Properties of the lifecycle supervisor.                                 *)
(***************************************************************************)
\* C6: a process that has stopped has closed the connectivity client, then
\* flushed the state store, then notified the alert sink of the shutdown,
\* each exactly once and in this order.
C6_DrainOrder ==
    last.op = "main" =>
        /\ last.result.state = "exited"
        /\ last.result.calls = <<"close", "save_state", "notify_shutdown">>

Unrecognized(strategy) == strategy \notin Range(valid_strategies)

\* the strategy the inputs of the last Config() name: BOT_STRATEGY when it is
\* not empty, else the file's, else the default
GivenStrategy ==
    IF EnvTruthy(environ, "BOT_STRATEGY")
    THEN Str(environ["BOT_STRATEGY"].v)
    ELSE FileOrDefault("STRATEGY")

\* C8: an unrecognized strategy name (a) does not make resolution fail: the
\* resolver warns and returns an object holding the name, and where Config()
\* raises it is for a BOT_MAX_POSITION_SIZE that is no number or for an
\* AVAILABLE_PAIRS the file gave; (b) makes initialize_components raise and
\* return no strategy: ValueError once the six collaborators are built and
\* the handshake is done, a collaborator's error if one fails before; (c) a
\* run of main on such a configuration exits non-zero and never enters the
\* loop.
C8_UnrecognizedStrategy ==
    /\ (last.op = "Config" /\ Unrecognized(GivenStrategy)) =>
          \/ /\ last.raised = "none"
             /\ "warn_strategy" \in last.log
             /\ cfg.attrs["STRATEGY"] = GivenStrategy
          \/ /\ last.raised = "ValueError"
             /\ EnvTruthy(environ, "BOT_MAX_POSITION_SIZE")
             /\ ~ParseFloat(environ["BOT_MAX_POSITION_SIZE"].v).ok
          \/ /\ last.raised = "TypeError"
             /\ FileGave("AVAILABLE_PAIRS")
    /\ (last.op = "initialize_components" /\ Unrecognized(cfg.attrs["STRATEGY"])) =>
          /\ last.result.raised # "none"
          /\ last.result.strategy = "none"
          /\ last.failAt \in {"strategy", "nowhere"} =>
                /\ last.result.raised = "ValueError"
                /\ last.result.completed = ConstructionSteps
    /\ last.op = "main" =>
          LET built == Construct(files, dirs, config_file, environ)
          IN  (built.raised = "none" /\ Unrecognized(built.object.attrs["STRATEGY"])) =>
                 /\ last.result.state = "exited"
                 /\ last.result.exit_code # 0
                 /\ ~last.result.entered_loop

\* C8 happens: the resolver returned an object whose strategy is scalping,
\* and initialize_components, no collaborator failing, raised ValueError
\* after building the six collaborators
C8_Witness ==
    /\ last.op = "initialize_components"
    /\ cfg.live
    /\ cfg.attrs["STRATEGY"] = Str("scalping")
    /\ last.failAt = "nowhere"
    /\ last.result.raised = "ValueError"
    /\ Len(last.result.completed) = Len(ConstructionSteps)

\* C10: update() leaves the Config object as it was.
C10_UpdateLeavesObject ==
    [][last'.op = "update" => cfg' = cfg]_vars


\* the collaborators that hold something to release: the client (close) and
\* the state store (save_state)
Drainable == {"binance_client", "db_manager"}

\* C15: when initialize_components raises, the draining actions have run
\* for whatever it had built: the client, if built, is closed and the state
\* store, if built, is flushed.
C15_FailedConstructionDrains ==
    (last.op = "initialize_components" /\ last.result.raised # "none") =>
        \A c \in Drainable \cap Range(last.result.completed) : c \in last.result.closed

\* C16: when the handshake fails, initialize_components raises, nothing
\* after the client is built, no strategy is returned, and the client is not
\* left open.
C16_FailedHandshakeLeavesNothing ==
    (last.op = "initialize_components" /\ last.failAt = "handshake") =>
        /\ last.result.raised # "none"
        /\ last.result.completed = <<"binance_client">>
        /\ last.result.strategy = "none"
        /\ "binance_client" \in last.result.closed

\* the order of construction the claim gives, the handshake after the client
FixedOrder ==
    <<"binance_client", "handshake", "db_manager", "alert_system",
      "risk_manager", "order_manager", "performance_tracker">>

\* C17: initialize_components builds the collaborators in the fixed order,
\* the strategy last: what it completed is a prefix of the order; a failure at
\* step k leaves exactly the k-1 steps before it completed, raises and
\* returns no strategy; a strategy is returned only after all seven steps.
C17_ConstructionOrder ==
    last.op = "initialize_components" =>
        LET done == last.result.completed
        IN  /\ Len(done) <= Len(FixedOrder)
            /\ done = SubSeq(FixedOrder, 1, Len(done))
            /\ \A k \in DOMAIN FixedOrder :
                  last.failAt = FixedOrder[k] =>
                     /\ Len(done) = k - 1
                     /\ last.result.raised = "CollaboratorError"
                     /\ last.result.strategy = "none"
            /\ last.failAt \in {"strategy", "nowhere"} => done = FixedOrder
            /\ last.failAt = "strategy" =>
                  last.result.raised # "none" /\ last.result.strategy = "none"
            /\ last.result.strategy # "none" =>
                  done = FixedOrder /\ last.result.raised = "none"
            /\ (last.failAt = "nowhere" /\ ~Unrecognized(cfg.attrs["STRATEGY"])) =>
                  last.result.strategy # "none"

\* C17 happens: the alert system's constructor raised; the client, the
\* handshake and the state store are done and nothing after them
C17_Witness ==
    /\ last.op = "initialize_components"
    /\ last.failAt = "alert_system"
    /\ last.result.completed = <<"binance_client", "handshake", "db_manager">>
    /\ last.result.raised = "CollaboratorError"
    /\ last.result.strategy = "none"


\* C23: a failed construction is reported through the alert sink whenever the
\* alert sink had been built: initialize_components raising after the
\* AlertSystem was constructed has sent an alert.
C23_FatalErrorsReported ==
    (/\ last.op = "initialize_components"
     /\ last.result.raised # "none"
     /\ "alert_system" \in Range(last.result.completed)) =>
        Len(last.result.alerts) >= 1

(***************************************************************************)
(* More properties of the configuration resolver.                          *)
(***************************************************************************)
\* the default keys whose default is a list or a group
StructuredKeys == {k \in DefaultKeys : DEFAULT_CONFIG[k].t \in {"list", "dict"}}

\* C25: after a resolution, a structured key the file gave holds exactly the
\* file's value, in config_data and as an attribute: a group has the file's
\* fields and no other.
C25_ShallowMerge ==
    Resolved =>
        \A k \in StructuredKeys :
            FileGave(k) =>
                /\ cfg.config_data[k] = last.file_before.doc.d[k]
                /\ cfg.attrs[k] = last.file_before.doc.d[k]
                /\ cfg.attrs[k].t = "dict" =>
                      DOMAIN cfg.attrs[k].d = DOMAIN last.file_before.doc.d[k].d

\* C25 happens: the file gave EMAIL_CONFIG with the field enabled only, and
\* the resolved group has that field and none of the default's other fields
C25_Witness ==
    /\ Resolved
    /\ FileGave("EMAIL_CONFIG")
    /\ cfg.attrs["EMAIL_CONFIG"] = Dict([enabled |-> Bool(TRUE)])
    /\ "smtp_server" \in DOMAIN DEFAULT_CONFIG["EMAIL_CONFIG"].d
    /\ "smtp_server" \notin DOMAIN cfg.attrs["EMAIL_CONFIG"].d

\* C26: a Config object has every default key, in config_data and as an
\* attribute, from its construction on and after every update.
C26_DefaultKeysKept ==
    cfg.live =>
        /\ DefaultKeys \subseteq DOMAIN cfg.config_data
        /\ DefaultKeys \subseteq DOMAIN cfg.attrs


\* the last operation opened the configured file for writing: the first-run
\* default write (line 131), or a save() that was reached, got to line 193
\* and opened self.config_path, which is the configured path unless the file
\* read had a key config_path
WroteFile ==
    \/ /\ last.op \in {"update", "save"}
       /\ last.opened
       /\ cfg.config_path = config_file
    \/ last.op = "Config" /\ "default_file_created" \in last.log

\* C27: after every write of the configured file, by the first-run default
\* write, by save() or by update(), the file is one object whose keys are
\* exactly the default keys.
C27_FileHasDefaultKeys ==
    WroteFile =>
        /\ files[config_file].kind = "json"
        /\ files[config_file].doc.t = "dict"
        /\ DOMAIN files[config_file].doc.d = DefaultKeys

\* BOT_MAX_POSITION_SIZE is given and float() refuses it
BadPositionSize ==
    /\ EnvTruthy(environ, "BOT_MAX_POSITION_SIZE")
    /\ ~ParseFloat(environ["BOT_MAX_POSITION_SIZE"].v).ok

\* C28: with a BOT_MAX_POSITION_SIZE that is no number every Config() raises
\* ValueError, so no Config object exists: none that holds the text, none
\* that holds the default or the file's value.
C28_ConversionEnforced ==
    BadPositionSize =>
        /\ ~cfg.live
        /\ last.op = "Config" => last.raised = "ValueError"

\* C28 happens: Config() was called with such a text and raised ValueError
C28_Witness ==
    /\ BadPositionSize
    /\ last.op = "Config"
    /\ last.raised = "ValueError"
    /\ ~cfg.live

\* the value a resolution from no file gives a key: the converted text of its
\* environment variable when that is not empty, else the default
FromEnvOrDefault(k) ==
    IF k \in OverriddenKeys(environ)
    THEN LET n == CHOOSE x \in EnvVars : TargetKey(x) = k
         IN  Converted(n, environ[n].v).value
    ELSE DEFAULT_CONFIG[k]

\* C29: a resolution that finds no file gives the same outcome whether the
\* default file could be written or not: it fails only for a
\* BOT_MAX_POSITION_SIZE that is no number, and otherwise returns an object
\* whose keys are the default keys, each with the environment's value or the
\* default.
C29_WriteFailureNotPropagated ==
    (last.op = "Config" /\ last.file_before = NoFile) =>
        /\ last.log \cap {"default_file_created", "default_file_error"} # {}
        /\ last.raised # "none" => (last.raised = "ValueError" /\ BadPositionSize)
        /\ last.raised = "none" =>
              /\ cfg.live
              /\ DOMAIN cfg.config_data = DefaultKeys
              /\ \A k \in DefaultKeys :
                    cfg.config_data[k] = FromEnvOrDefault(k) /\ cfg.attrs[k] = FromEnvOrDefault(k)

\* C29 happens: no file, a directory that cannot be written, the write of the
\* default file failed, and Config() returned an object holding the defaults
C29_Witness ==
    /\ Resolved
    /\ last.file_before = NoFile
    /\ "default_file_error" \in last.log
    /\ config_file = ReadOnlyPath
    /\ files[config_file] = NoFile
    /\ cfg.config_data = DEFAULT_CONFIG


(***************************************************************************)
(* More properties of main.py.                                             *)
(***************************************************************************)
\* the inputs of a run that has nothing to fail on: Config() on the configured
\* file returns an object, its STRATEGY names one of the three classes, and
\* no stop has been requested
CleanStart ==
    LET built == Construct(files, dirs, config_file, environ)
    IN  /\ built.raised = "none"
        /\ StrategyClass(built.object.attrs["STRATEGY"]) # "none"
        /\ running

\* C32: started on such inputs, main() installs the stop handlers, resolves
\* the configuration, builds every collaborator, enters the loop and makes at
\* least one call on a collaborator there (the market data fetch comes first).
C32_StartUpReachesLoop ==
    (last.op = "main" /\ CleanStart) =>
        /\ last.result.raised = "none"
        /\ last.result.handlers_installed
        /\ last.result.config_resolved
        /\ Range(ConstructionSteps) \subseteq Range(last.result.constructed)
        /\ last.result.entered_loop
        /\ Len(last.result.calls) >= 1


(***************************************************************************)
(* Properties of the environment layer.                                    *)
(***************************************************************************)
\* the text is 'true' in some mix of upper and lower case
SpellsTrue(cs) ==
    /\ Len(cs) = 4
    /\ cs[1] \in {"t", "T"}
    /\ cs[2] \in {"r", "R"}
    /\ cs[3] \in {"u", "U"}
    /\ cs[4] \in {"e", "E"}

\* C35: after a resolution with a non-empty BOT_USE_TESTNET, USE_TESTNET is
\* the boolean that is true exactly when the text is 'true' in any case; for
\* every other text it is false, whatever the file and the default say.
C35_TestnetToggle ==
    (Resolved /\ EnvTruthy(environ, "BOT_USE_TESTNET")) =>
        /\ cfg.attrs["USE_TESTNET"] = Bool(SpellsTrue(environ["BOT_USE_TESTNET"].v))
        /\ cfg.config_data["USE_TESTNET"] = Bool(SpellsTrue(environ["BOT_USE_TESTNET"].v))

\* C35 happens: the file says true, the variable is '1', and the resolved
\* value is false
C35_Witness ==
    /\ Resolved
    /\ FileGave("USE_TESTNET")
    /\ last.file_before.doc.d["USE_TESTNET"] = Bool(TRUE)
    /\ environ["BOT_USE_TESTNET"] = SetTo(<<"1">>)
    /\ cfg.attrs["USE_TESTNET"] = Bool(FALSE)


\* the configured file is an object that has, for every default key, the
\* value the Config object holds for it (as json writes it)
FileHoldsEffectiveValues ==
    /\ files[config_file].kind = "json"
    /\ files[config_file].doc.t = "dict"
    /\ \A k \in DefaultKeys :
          /\ k \in DOMAIN files[config_file].doc.d
          /\ k \in DOMAIN cfg.attrs
          /\ files[config_file].doc.d[k] = JsonDoc(cfg.attrs[k])
          /\ k \in DOMAIN cfg.config_data
          /\ files[config_file].doc.d[k] = JsonDoc(cfg.config_data[k])

\* C36: after every save() and every update() the file holds the
\* object's value of every default key, environment overrides included.
C36_FileHoldsEffectiveValues ==
    last.op \in {"save", "update"} => FileHoldsEffectiveValues


\* the variable is set to the empty text
SetToEmpty(n) ==
    /\ environ[n].set
    /\ IF n \in CharVars THEN environ[n].v = <<>> ELSE environ[n].v = ""

\* C37: a mapped variable set to the empty text is passed over: no converter
\* is called on it (float('') would raise ValueError), and after a resolution
\* its key has the file's value, else the default.
C37_EmptyIsUnset ==
    last.op = "Config" =>
        \A n \in EnvVars :
            SetToEmpty(n) =>
                /\ n = "BOT_MAX_POSITION_SIZE" => last.raised # "ValueError"
                /\ last.raised = "none" =>
                      /\ cfg.attrs[TargetKey(n)] = FileOrDefault(TargetKey(n))
                      /\ cfg.config_data[TargetKey(n)] = FileOrDefault(TargetKey(n))

\* C37 happens: BOT_MAX_POSITION_SIZE is set to '', the file gives
\* MAX_POSITION_SIZE a value that is not the default, and the resolution
\* returns an object that holds the file's value
C37_Witness ==
    /\ Resolved
    /\ SetToEmpty("BOT_MAX_POSITION_SIZE")
    /\ FileGave("MAX_POSITION_SIZE")
    /\ last.file_before.doc.d["MAX_POSITION_SIZE"] # DEFAULT_CONFIG["MAX_POSITION_SIZE"]
    /\ cfg.attrs["MAX_POSITION_SIZE"] = last.file_before.doc.d["MAX_POSITION_SIZE"]


(***************************************************************************)
(* Frame properties of the Config class.                                   *)
(***************************************************************************)
\* C38: the dict the class attribute DEFAULT_CONFIG is bound to has, in every
\* state, the content of the literal of lines 16-78, groups and lists
\* included, whatever resolutions, updates and saves have happened: no
\* object's config_data is that dict, and a group or list an object shares
\* with it has the content of the literal; so a resolution that finds no
\* file and no override returns exactly that content.
C38_DefaultsNeverModified ==
    /\ class_defaults = DEFAULT_CONFIG
    /\ cfg.live =>
          /\ ~cfg.is_class_dict
          /\ \A k \in cfg.shared : cfg.attrs[k] = DEFAULT_CONFIG[k]
    /\ (Resolved /\ last.file_before = NoFile /\ OverriddenKeys(environ) = {}) =>
          cfg.config_data = DEFAULT_CONFIG

\* C38 happens: an object built from a copy of the defaults, which shares
\* their groups, was given a SYMBOL and an unserialisable LOG_LEVEL by
\* update(), and the class attribute still has the defaults for both
C38_Witness ==
    /\ last.op = "update"
    /\ "EMAIL_CONFIG" \in cfg.shared
    /\ DefaultKeys \subseteq DOMAIN cfg.config_data
    /\ cfg.config_data["SYMBOL"] = Str("XRPUSDT")
    /\ cfg.config_data["LOG_LEVEL"] = Opaque
    /\ class_defaults["SYMBOL"] = Str("BTCUSDT")
    /\ class_defaults["LOG_LEVEL"] # Opaque
    /\ class_defaults["EMAIL_CONFIG"] = DEFAULT_CONFIG["EMAIL_CONFIG"]


\* C39: a Config object, as constructed and after any updates, has for every
\* default key an attribute and an item of config_data, and the two are equal.
C39_AttributesMirrorConfigData ==
    cfg.live =>
        \A k \in DefaultKeys :
            /\ k \in DOMAIN cfg.attrs
            /\ k \in DOMAIN cfg.config_data
            /\ cfg.attrs[k] = cfg.config_data[k]

====
